---- MODULE Spec2Model ----
(***************************************************************************)
(* Model of the incremental change-detection and caching engine of         *)
(* cursor-directory-structure-ts:                                          *)
(*   - CacheManager          (src/src/cache-manager.ts)   fingerprint store *)
(*   - IncrementalGenerator  (src/src/incremental-generator.ts)            *)
(*   - RulesWatcher          (src/src/rules-watcher.ts)   update scheduler  *)
(* Three specifications share the variables: SpecStore, SpecGen, SpecWatch. *)
(***************************************************************************)
EXTENDS Integers, Sequences, FiniteSets, TLC

VARIABLES
  cache,        \* CacheManager.cache: projectId -> (filePath -> entry)
  storeDisk,    \* .brain/cache/<projectId>.json files: projectId -> file
  everUpdated,  \* history: <<projectId, filePath>> pairs passed to updateFileCache
  sop,          \* history: the store operation that ran last, with its result
  gcache,       \* IncrementalGenerator.cache (null or an IncrementalCache)
  gdisk,        \* incremental-cache.json
  git,          \* the repository: availability, commits, HEAD
  tree,         \* working tree of the project: file -> content
  gclock,       \* Date.now() as seen by the generator
  atUpdate,     \* history: the last updateCache() (tree, reference, saved, held in memory)
  gres,         \* history: the generator call made by the last step, with its result
  now,          \* Date.now() as seen by the watcher (ms)
  autoUpdate,   \* RulesWatcher.autoUpdate
  lastUpdate,   \* RulesWatcher.lastUpdate
  updateTimeout,\* RulesWatcher.updateTimeout: null or a timer handle
  timers,       \* live (scheduled, not fired, not cleared) timers of the session
  regens,       \* regenerations in flight (awaited updateRules calls)
  wfiles,       \* watched project files: path -> content or absent
  events,       \* number of file events delivered so far
  burst,        \* history: the current run of relevant events that reset a live timer
  output,       \* directory-structure.md as last written (by file-system version read)
  wlog,         \* history of the session's regenerations
  lastRead,     \* history: the file the last started regeneration read, while unchanged
  session       \* ProjectWatcherManager.watchers entry of the project and its watcher

storeVars == <<cache, storeDisk, everUpdated, sop>>
genVars   == <<gcache, gdisk, git, tree, gclock, atUpdate, gres>>
watchVars == <<now, autoUpdate, lastUpdate, updateTimeout, timers, regens,
               wfiles, events, burst, output, wlog, lastRead, session>>
vars == <<storeVars, genVars, watchVars>>

\* ---------------------------------------------------------------- bounds
MaxCalls   == 3          \* mutating calls made on the fingerprint store

\* ---------------------------------------------------------------- helpers
Put(f, k, v) == [x \in (DOMAIN f) \cup {k} |-> IF x = k THEN v ELSE f[x]]
Remove(f, k) == [x \in (DOMAIN f) \ {k} |-> f[x]]
EmptyObj == [x \in {} |-> 0]

(***************************************************************************)
(* CacheManager                                                            *)
(***************************************************************************)
Projects == {"p1", "p2"}
Paths    == {"a.ts", "b.ts"}
FnNames  == {"f"}
Descs    == {"d1"}
EmptyString == 0          \* the content ''
Contents == {EmptyString, 1}
EmptyHash   == <<>>       \* the '' stored by updateFunctionCache for a new file entry

\* crypto md5 digest, injective on Contents and never the empty string
calculateHash(content) == <<"md5", content>>

\* loadProjectCache: parsed file, or {} when the file is missing or unparsable
loadProjectCache(c, d, projectId) ==
  IF projectId \in DOMAIN d /\ d[projectId].ok
    THEN Put(c, projectId, d[projectId].table)
    ELSE Put(c, projectId, EmptyObj)

\* the value JSON.parse gives for a file that holds the literal null
JsonNull == [null |-> TRUE]

\* the guard `if (!this.cache[projectId]) this.loadProjectCache(projectId)`
EnsureLoaded(c, d, projectId) ==
  IF projectId \in DOMAIN c /\ c[projectId] # JsonNull THEN c
  ELSE loadProjectCache(c, d, projectId)

\* `this.cache[projectId][filePath]` raises a TypeError when the loaded value is null;
\* the operators below give the result of a call that does not raise
Throws(c, d, projectId) == EnsureLoaded(c, d, projectId)[projectId] = JsonNull

\* results of the two getters: null, or a string
NullValue == [isNull |-> TRUE]
Value(v)  == [isNull |-> FALSE, value |-> v]

\* getCachedFileContent: `?.content || null`, so the empty string comes back as null
getCachedFileContent(c, d, projectId, filePath) ==
  LET t == EnsureLoaded(c, d, projectId)[projectId]
  IN  IF filePath \notin DOMAIN t THEN NullValue
      ELSE IF t[filePath].content = EmptyString THEN NullValue
      ELSE Value(t[filePath].content)

getCachedFunctionDescription(c, d, projectId, filePath, functionName) ==
  LET t == EnsureLoaded(c, d, projectId)[projectId]
  IN  IF filePath \notin DOMAIN t THEN NullValue
      ELSE IF functionName \notin DOMAIN t[filePath].functions THEN NullValue
      ELSE Value(t[filePath].functions[functionName].description)

\* variant: a file without an entry is reported unchanged
hasFileChangedMissingUnchanged(c, d, projectId, filePath, content) ==
  LET t == EnsureLoaded(c, d, projectId)[projectId]
  IN  IF filePath \notin DOMAIN t THEN FALSE
      ELSE t[filePath].hash # calculateHash(content)

hasFileChanged(c, d, projectId, filePath, content) ==
  LET t == EnsureLoaded(c, d, projectId)[projectId]
  IN  IF filePath \notin DOMAIN t THEN TRUE
      ELSE t[filePath].hash # calculateHash(content)

\* variant: the function is looked up by name in every file of the project
hasFunctionChangedAnyFile(c, d, projectId, filePath, functionName, functionContent) ==
  LET t == EnsureLoaded(c, d, projectId)[projectId]
  IN  \A q \in DOMAIN t :
        \/ functionName \notin DOMAIN t[q].functions
        \/ t[q].functions[functionName].hash # calculateHash(functionContent)

hasFunctionChanged(c, d, projectId, filePath, functionName, functionContent) ==
  LET t == EnsureLoaded(c, d, projectId)[projectId]
  IN  IF filePath \notin DOMAIN t THEN TRUE
      ELSE IF functionName \notin DOMAIN t[filePath].functions THEN TRUE
      ELSE t[filePath].functions[functionName].hash # calculateHash(functionContent)

\* the entry updateFileCache stores for filePath
\* variant: an existing entry keeps its old hash
FileEntryStale(t, filePath, content) ==
  IF filePath \in DOMAIN t
    THEN [t[filePath] EXCEPT !.content = content]
    ELSE [content |-> content, hash |-> calculateHash(content), functions |-> EmptyObj]

\* variant: updateFileCache starts the entry afresh, without its function sub-entries
FileEntryNoFunctions(t, filePath, content) ==
  [content |-> content, hash |-> calculateHash(content), functions |-> EmptyObj]

FileEntry(t, filePath, content) ==
  [content   |-> content,
   hash      |-> calculateHash(content),
   functions |-> IF filePath \in DOMAIN t THEN t[filePath].functions ELSE EmptyObj]

\* the entry updateFunctionCache leaves for filePath
FunctionEntry(t, filePath, functionName, functionContent, description) ==
  LET e == IF filePath \in DOMAIN t THEN t[filePath]
           ELSE [content |-> EmptyString, hash |-> EmptyHash, functions |-> EmptyObj]
  IN  [e EXCEPT !.functions =
         Put(e.functions, functionName,
             [description |-> description, hash |-> calculateHash(functionContent)])]

\* saveProjectCache: writeFileSync succeeds (wrote) or throws and is swallowed
saveProjectCache(c, d, projectId, wrote) ==
  IF wrote THEN Put(d, projectId, [ok |-> TRUE, table |-> c[projectId]]) ELSE d

StoreOp(op, projectId, filePath, content, n) ==
  [op |-> op, id |-> projectId, path |-> filePath, content |-> content, calls |-> n]
OtherOp(op, n) == StoreOp(op, "p1", "a.ts", EmptyString, n)

UpdateFile(projectId, filePath, content, wrote) ==
  LET c1 == EnsureLoaded(cache, storeDisk, projectId)
      c2 == Put(c1, projectId,
                Put(c1[projectId], filePath, FileEntry(c1[projectId], filePath, content)))
  IN  /\ sop.calls < MaxCalls
      /\ IF Throws(cache, storeDisk, projectId)
           THEN /\ cache' = c1
                /\ sop' = OtherOp("threw", sop.calls + 1)
                /\ UNCHANGED <<storeDisk, everUpdated>>
           ELSE /\ cache' = c2
                /\ storeDisk' = saveProjectCache(c2, storeDisk, projectId, wrote)
                /\ everUpdated' = everUpdated \cup {<<projectId, filePath>>}
                /\ sop' = StoreOp("updateFile", projectId, filePath, content,
                                  sop.calls + 1)
      /\ UNCHANGED <<genVars, watchVars>>

UpdateFunction(projectId, filePath, functionName, functionContent, description, wrote) ==
  LET c1 == EnsureLoaded(cache, storeDisk, projectId)
      c2 == Put(c1, projectId,
                Put(c1[projectId], filePath,
                    FunctionEntry(c1[projectId], filePath, functionName,
                                  functionContent, description)))
  IN  /\ sop.calls < MaxCalls
      /\ IF Throws(cache, storeDisk, projectId)
           THEN /\ cache' = c1
                /\ sop' = OtherOp("threw", sop.calls + 1)
                /\ UNCHANGED storeDisk
           ELSE /\ cache' = c2
                /\ storeDisk' = saveProjectCache(c2, storeDisk, projectId, wrote)
                /\ sop' = OtherOp("updateFunction", sop.calls + 1)
      /\ UNCHANGED everUpdated
      /\ UNCHANGED <<genVars, watchVars>>

\* hasFileChanged as a call: its only effect is the lazy load
HasFileChanged(projectId, filePath, content) ==
  /\ cache' = EnsureLoaded(cache, storeDisk, projectId)
  /\ sop' = OtherOp("hasFileChanged", sop.calls)
  /\ UNCHANGED <<storeDisk, everUpdated>>
  /\ UNCHANGED <<genVars, watchVars>>

\* clearProjectCache: the unlink may throw, and then the in-memory table stays
ClearProjectCache(projectId, unlinked) ==
  /\ sop.calls < MaxCalls
  /\ IF projectId \in DOMAIN storeDisk /\ ~unlinked
       THEN UNCHANGED <<storeDisk, cache>>
       ELSE /\ storeDisk' = Remove(storeDisk, projectId)
            /\ cache' = Remove(cache, projectId)
  /\ sop' = StoreOp("clear", projectId, "a.ts", EmptyString, sop.calls + 1)
  /\ UNCHANGED everUpdated
  /\ UNCHANGED <<genVars, watchVars>>

\* a new CacheManager instance over the same cache directory
NewCacheManager ==
  /\ cache # EmptyObj
  /\ cache' = EmptyObj
  /\ sop' = OtherOp("new", sop.calls)
  /\ UNCHANGED <<storeDisk, everUpdated>>
  /\ UNCHANGED <<genVars, watchVars>>

InitStoreVars ==
  /\ cache = EmptyObj
  /\ storeDisk \in {EmptyObj, [p \in {"p1"} |-> [ok |-> FALSE]]}
  /\ everUpdated = {}
  /\ sop = OtherOp("new", 0)

(***************************************************************************)
(* IncrementalGenerator                                                    *)
(***************************************************************************)
MaxCommits == 2          \* commits of the session, its first one included
MaxClock   == 2          \* clock ticks seen by the generator

GFiles == {"x.ts", "y.ts"}
Keys   == {"k"}
GDescs == {"d"}
CACHE_VERSION == "2.0"
OldVersion    == "1.0"
NullResult    == "<null>"
EmptyRef      == <<>>    \* createEmptyCache().lastGitRef = ''
FallbackDepth == 10      \* HEAD~10 of the fallback diff command

NullCache == [isNull |-> TRUE]
NoFile    == [kind |-> "nofile"]
Corrupt   == [kind |-> "corrupt"]
JsonFile(data) == [kind |-> "json", data |-> data]

ChangeSet(a, m, d, u) == [added |-> a, modified |-> m, deleted |-> d, unchanged |-> u]
FullRescan   == ChangeSet({"*"}, {}, {}, {})
AllUnchanged == ChangeSet({}, {}, {}, {"*"})

createEmptyCache ==
  [isNull |-> FALSE, version |-> CACHE_VERSION, lastGitRef |-> EmptyRef,
   aiDescriptions |-> EmptyObj]

\* variant: the version field of the file is not compared
loadCacheAnyVersion(gc, gd) ==
  IF ~gc.isNull THEN gc
  ELSE IF gd.kind = "json" THEN gd.data
  ELSE NullCache

\* loadCache: the value of this.cache after the call, which is also what it returns
loadCache(gc, gd) ==
  IF ~gc.isNull THEN gc
  ELSE IF gd.kind = "json" /\ gd.data.version = CACHE_VERSION THEN gd.data
  ELSE NullCache

\* getCurrentGitRef: `git rev-parse HEAD`, or a time token when that fails
getCurrentGitRef(g, clock) ==
  IF g.avail /\ Len(g.commits) > 0 THEN <<"sha", Len(g.commits)>>
  ELSE <<"time", clock>>

Resolvable(g, ref) ==
  /\ Len(ref) = 2
  /\ ref[1] = "sha"
  /\ ref[2] \in 1..Len(g.commits)

\* rename detection of git diff: a path that disappeared and a path that appeared
\* with the same content are one rename, reported with its similarity score
Renames(old, new) ==
  {r \in ((DOMAIN old) \ (DOMAIN new)) \X ((DOMAIN new) \ (DOMAIN old)) :
     old[r[1]] = new[r[2]]}

\* `git diff --name-status` between two snapshots: the set of tab-separated lines
\* <<status, path>>, and <<"R100", old path, new path>> for a rename
NameStatus(old, new) ==
  LET rn == Renames(old, new)
  IN  {<<"A", f>> : f \in ((DOMAIN new) \ (DOMAIN old)) \ {r[2] : r \in rn}}
        \cup {<<"D", f>> : f \in ((DOMAIN old) \ (DOMAIN new)) \ {r[1] : r \in rn}}
        \cup {<<"M", f>> : f \in {h \in (DOMAIN old) \cap (DOMAIN new) : old[h] # new[h]}}
        \cup {<<"R100", r[1], r[2]>> : r \in rn}

\* `git diff --name-status A...B 2>/dev/null || git diff --name-status HEAD~10...HEAD`
\* on a linear history: A...B is the diff from the merge base (A) to B, and
\* an empty A stands for HEAD
gitDiff(g, lastRef, currentRef) ==
  LET n == Len(g.commits)
  IN  IF ~g.avail \/ n = 0 THEN [ok |-> FALSE, lines |-> {}]
      ELSE IF lastRef = EmptyRef /\ Resolvable(g, currentRef)
        THEN [ok |-> TRUE, lines |-> {}]
      ELSE IF Resolvable(g, lastRef) /\ Resolvable(g, currentRef)
        THEN [ok |-> TRUE,
              lines |-> NameStatus(g.commits[lastRef[2]], g.commits[currentRef[2]])]
      ELSE IF n > FallbackDepth
        THEN [ok |-> TRUE, lines |-> NameStatus(g.commits[n - FallbackDepth], g.commits[n])]
      ELSE [ok |-> FALSE, lines |-> {}]

\* the switch over the status column
ParseStatus(lines) ==
  ChangeSet({l[2] : l \in {k \in lines : k[1] = "A"}}
              \cup {l[3] : l \in {k \in lines : k[1] = "R"}},
            {l[2] : l \in {k \in lines : k[1] = "M"}},
            {l[2] : l \in {k \in lines : k[1] = "D"}}
              \cup {l[2] : l \in {k \in lines : k[1] = "R"}},
            {})

\* variant: equal references are not short-circuited
detectChangesNoShortCircuit(gc, gd, g, clock) ==
  LET c == loadCache(gc, gd)
  IN  IF c.isNull THEN FullRescan
      ELSE LET d == gitDiff(g, c.lastGitRef, getCurrentGitRef(g, clock))
           IN  IF d.ok THEN ParseStatus(d.lines) ELSE FullRescan

detectChanges(gc, gd, g, clock) ==
  LET c == loadCache(gc, gd)
  IN  IF c.isNull THEN FullRescan
      ELSE LET lastRef    == c.lastGitRef
               currentRef == getCurrentGitRef(g, clock)
           IN  IF lastRef = currentRef THEN AllUnchanged
               ELSE LET d == gitDiff(g, lastRef, currentRef)
                    IN  IF d.ok THEN ParseStatus(d.lines) ELSE FullRescan

needsFullRegeneration(gc, gd, g, clock) ==
  LET c == loadCache(gc, gd)
  IN  IF c.isNull THEN TRUE
      ELSE IF c.version # CACHE_VERSION THEN TRUE
      ELSE "*" \in detectChanges(c, gd, g, clock).added

\* cache?.aiDescriptions?.[key] || null
getCachedDescription(gc, gd, key) ==
  LET c == loadCache(gc, gd)
  IN  IF c.isNull THEN NullResult
      ELSE IF key \in DOMAIN c.aiDescriptions THEN c.aiDescriptions[key]
      ELSE NullResult

cacheDescription(gc, key, description) ==
  LET c == IF gc.isNull THEN createEmptyCache ELSE gc
  IN  [c EXCEPT !.aiDescriptions = Put(c.aiDescriptions, key, description)]

\* updateCache: { ...this.cache, ...data, lastGitRef, lastGenerated }
updateCache(gc, data, g, clock) ==
  LET c == IF gc.isNull THEN createEmptyCache ELSE gc
      m == IF "aiDescriptions" \in DOMAIN data
             THEN [c EXCEPT !.aiDescriptions = data["aiDescriptions"]] ELSE c
  IN  [m EXCEPT !.lastGitRef = getCurrentGitRef(g, clock)]

\* files whose content (or existence) differs between two trees
Differing(t1, t2) ==
  {f \in GFiles : (f \in DOMAIN t1) # (f \in DOMAIN t2)
                  \/ (f \in DOMAIN t1 /\ f \in DOMAIN t2 /\ t1[f] # t2[f])}

NoUpdate == [set |-> FALSE]

\* what holds of the state an operation starts in
GPre ==
  [memNull   |-> gcache.isNull,
   mismatch  |-> gdisk.kind = "json" /\ gdisk.data.version # CACHE_VERSION,
   noUsable  |-> ~atUpdate.set
                 /\ ~(gdisk.kind = "json" /\ gdisk.data.version = CACHE_VERSION),
   updated   |-> atUpdate.set,
   gitAvail  |-> git.avail,
   headSame  |-> /\ atUpdate.set
                 /\ atUpdate.ref = getCurrentGitRef(git, gclock)
                 /\ (atUpdate.inMem \/ gcache.isNull),
   differing |-> IF atUpdate.set THEN Differing(atUpdate.tree, tree) ELSE {},
   lastRef   |-> LET c == loadCache(gcache, gdisk)
                 IN  IF c.isNull THEN <<"none">> ELSE c.lastGitRef,
   curRef    |-> getCurrentGitRef(git, gclock)]

GResult(op, cs, flag, desc, altCs, altFlag, altDesc) ==
  [op |-> op, cs |-> cs, flag |-> flag, desc |-> desc,
   altCs |-> altCs, altFlag |-> altFlag, altDesc |-> altDesc, pre |-> GPre]

\* no generator call was made by the last step
NoCall ==
  [op |-> "none", cs |-> FullRescan, flag |-> FALSE, desc |-> NullResult,
   altCs |-> FullRescan, altFlag |-> FALSE, altDesc |-> NullResult,
   pre |-> [memNull |-> TRUE, mismatch |-> FALSE, noUsable |-> TRUE,
            updated |-> FALSE, gitAvail |-> FALSE, headSame |-> FALSE,
            differing |-> {}, lastRef |-> <<"none">>, curRef |-> <<"none">>]]

\* the snapshot of the last update() is held in memory once a call loads it
AfterLoad ==
  IF atUpdate.set /\ gcache.isNull /\ ~loadCache(gcache, gdisk).isNull
    THEN [atUpdate EXCEPT !.inMem = TRUE] ELSE atUpdate

\* loadCache(): flag = a snapshot (not null) is returned
LoadCache ==
  /\ gcache' = loadCache(gcache, gdisk)
  /\ gres' = GResult("loadCache", FullRescan, ~loadCache(gcache, gdisk).isNull, NullResult,
                     FullRescan, ~loadCache(gcache, NoFile).isNull, NullResult)
  /\ atUpdate' = AfterLoad
  /\ UNCHANGED <<gdisk, git, tree, gclock>>
  /\ UNCHANGED <<storeVars, watchVars>>

DetectChanges ==
  /\ gcache' = loadCache(gcache, gdisk)
  /\ gres' = GResult("detectChanges", detectChanges(gcache, gdisk, git, gclock), FALSE,
                     NullResult, detectChanges(gcache, NoFile, git, gclock), FALSE, NullResult)
  /\ atUpdate' = AfterLoad
  /\ UNCHANGED <<gdisk, git, tree, gclock>>
  /\ UNCHANGED <<storeVars, watchVars>>

NeedsFullRegeneration ==
  /\ gcache' = loadCache(gcache, gdisk)
  /\ gres' = GResult("needsFullRegeneration", FullRescan,
                     needsFullRegeneration(gcache, gdisk, git, gclock), NullResult,
                     FullRescan, needsFullRegeneration(gcache, NoFile, git, gclock),
                     NullResult)
  /\ atUpdate' = AfterLoad
  /\ UNCHANGED <<gdisk, git, tree, gclock>>
  /\ UNCHANGED <<storeVars, watchVars>>

GetCachedDescription(key) ==
  /\ gcache' = loadCache(gcache, gdisk)
  /\ gres' = GResult("getCachedDescription", FullRescan, FALSE,
                     getCachedDescription(gcache, gdisk, key),
                     FullRescan, FALSE, getCachedDescription(gcache, NoFile, key))
  /\ atUpdate' = AfterLoad
  /\ UNCHANGED <<gdisk, git, tree, gclock>>
  /\ UNCHANGED <<storeVars, watchVars>>

CacheDescription(key, description) ==
  /\ gcache' = cacheDescription(gcache, key, description)
  /\ gres' = GResult("cacheDescription", FullRescan, FALSE, NullResult,
                     FullRescan, FALSE, NullResult)
  /\ UNCHANGED <<gdisk, git, tree, gclock, atUpdate>>
  /\ UNCHANGED <<storeVars, watchVars>>

\* updateCache(data) and its saveCache: the write succeeds (wrote) or the error is swallowed
UpdateCache(data, wrote) ==
  /\ gcache' = updateCache(gcache, data, git, gclock)
  /\ gdisk' = IF wrote THEN JsonFile(updateCache(gcache, data, git, gclock)) ELSE gdisk
  /\ atUpdate' = [set |-> TRUE, tree |-> tree, ref |-> getCurrentGitRef(git, gclock),
                  saved |-> wrote, inMem |-> TRUE]
  /\ gres' = GResult("updateCache", FullRescan, FALSE, NullResult,
                     FullRescan, FALSE, NullResult)
  /\ UNCHANGED <<git, tree, gclock>>
  /\ UNCHANGED <<storeVars, watchVars>>

\* clearCache(): when the file exists and the unlink throws, this.cache is kept
ClearCache(unlinked) ==
  /\ IF gdisk.kind # "nofile" /\ ~unlinked
       THEN UNCHANGED <<gdisk, gcache, atUpdate>>
       ELSE /\ gdisk' = NoFile
            /\ gcache' = NullCache
            /\ atUpdate' = NoUpdate
  /\ gres' = GResult("clearCache", FullRescan, FALSE, NullResult,
                     FullRescan, FALSE, NullResult)
  /\ UNCHANGED <<git, tree, gclock>>
  /\ UNCHANGED <<storeVars, watchVars>>

\* a new IncrementalGenerator over the same project root
NewGenerator ==
  /\ ~gcache.isNull
  /\ gcache' = NullCache
  /\ atUpdate' = IF atUpdate.set /\ atUpdate.saved
                   THEN [atUpdate EXCEPT !.inMem = FALSE] ELSE NoUpdate
  /\ gres' = NoCall
  /\ UNCHANGED <<gdisk, git, tree, gclock>>
  /\ UNCHANGED <<storeVars, watchVars>>

\* the environment: edits of the working tree, commits, the clock
EditFile(f, c) ==
  /\ IF f \in DOMAIN tree THEN tree[f] # c ELSE tree = EmptyObj
  /\ tree' = Put(tree, f, c)
  /\ gres' = NoCall
  /\ UNCHANGED <<gcache, gdisk, git, gclock, atUpdate>>
  /\ UNCHANGED <<storeVars, watchVars>>

DeleteFile(f) ==
  /\ f \in DOMAIN tree
  /\ tree' = Remove(tree, f)
  /\ gres' = NoCall
  /\ UNCHANGED <<gcache, gdisk, git, gclock, atUpdate>>
  /\ UNCHANGED <<storeVars, watchVars>>

\* a file is moved to a free name (git mv)
RenameFile(f, h) ==
  /\ f \in DOMAIN tree
  /\ h \notin DOMAIN tree
  /\ tree' = Put(Remove(tree, f), h, tree[f])
  /\ gres' = NoCall
  /\ UNCHANGED <<gcache, gdisk, git, gclock, atUpdate>>
  /\ UNCHANGED <<storeVars, watchVars>>

Commit ==
  /\ git.avail
  /\ Len(git.commits) < git.base + MaxCommits
  /\ git.commits[Len(git.commits)] # tree
  /\ git' = [git EXCEPT !.commits = Append(@, tree)]
  /\ gres' = NoCall
  /\ UNCHANGED <<gcache, gdisk, tree, gclock, atUpdate>>
  /\ UNCHANGED <<storeVars, watchVars>>

\* Date.now() is read by the time token only, which is used without git only
GTick ==
  /\ ~git.avail
  /\ gclock < MaxClock
  /\ gclock' = gclock + 1
  /\ gres' = NoCall
  /\ UNCHANGED <<gcache, gdisk, git, tree, atUpdate>>
  /\ UNCHANGED <<storeVars, watchVars>>

\* the project holds one file at a time: x.ts is written, moved to y.ts and back,
\* y.ts is deleted and x.ts is created again
Edits     == {<<"x.ts", 0>>, <<"x.ts", 1>>}
Deletable == {"y.ts"}
Moves     == {<<"x.ts", "y.ts">>, <<"y.ts", "x.ts">>}
InitTree == [f \in {"x.ts"} |-> 0]
\* commits made before the project's first commit of the session, differing from it
PriorTree == [f \in {"x.ts"} |-> 1]
History(base) == [i \in 1..(base + 1) |-> IF i <= base THEN PriorTree ELSE InitTree]
\* a snapshot of the running version whose reference is a commit no longer in the
\* history (rewritten or shallow history)
GoneRef == <<"sha", 0>>
OrphanSnapshot ==
  [isNull |-> FALSE, version |-> CACHE_VERSION, lastGitRef |-> GoneRef,
   aiDescriptions |-> EmptyObj]
StaleSnapshot ==
  [isNull |-> FALSE, version |-> OldVersion, lastGitRef |-> <<"sha", 1>>,
   aiDescriptions |-> [k \in Keys |-> "stale"]]

InitGenVars ==
  /\ gcache = NullCache
  /\ \/ /\ gdisk \in {NoFile, Corrupt, JsonFile(StaleSnapshot)}
        /\ \E a \in BOOLEAN :
             git = [avail |-> a, commits |-> IF a THEN History(0) ELSE <<>>, base |-> 0]
     \/ /\ gdisk = JsonFile(OrphanSnapshot)
        /\ \E b \in {0, FallbackDepth} :
             git = [avail |-> TRUE, commits |-> History(b), base |-> b]
  /\ tree = InitTree
  /\ gclock = 0
  /\ atUpdate = NoUpdate
  /\ gres = NoCall

\* directoryHasChanges compares characters (String.startsWith), so its paths are
\* sequences of characters; Star is the sentinel '*'
MaxListed == 2           \* paths listed by one change set
Star == <<"*">>
RootPath == <<"/", "r">>                 \* this.rootPath
startsWith(str, prefix) ==
  Len(prefix) <= Len(str) /\ SubSeq(str, 1, Len(prefix)) = prefix

\* path.relative(rootPath, dirPath) for a directory of the project
relative(from, to) ==
  IF to = from THEN <<>> ELSE SubSeq(to, Len(from) + 2, Len(to))

\* variant: only changes below the directory count
directoryHasChangesBelow(dirPath, changes) ==
  IF Star \in changes.added THEN TRUE
  ELSE IF Star \in changes.unchanged THEN FALSE
  ELSE LET relativePath == relative(RootPath, dirPath)
       IN  \E change \in changes.added \cup changes.modified \cup changes.deleted :
             startsWith(change, relativePath)

directoryHasChanges(dirPath, changes) ==
  IF Star \in changes.added THEN TRUE
  ELSE IF Star \in changes.unchanged THEN FALSE
  ELSE LET relativePath == relative(RootPath, dirPath)
           allChanges   == changes.added \cup changes.modified \cup changes.deleted
       IN  \E change \in allChanges :
             startsWith(change, relativePath) \/ startsWith(relativePath, change)

\* the directories asked about: the root, a, a/b, and ab
Dirs == {RootPath, RootPath \o <<"/", "a">>, RootPath \o <<"/", "a", "/", "b">>,
         RootPath \o <<"/", "a", "b">>}
\* the paths a change set names, relative to the root: a, a/b, a/b/c, b
ChangePaths == {<<"a">>, <<"a", "/", "b">>, <<"a", "/", "b", "/", "c">>, <<"b">>}
\* the change sets detectChanges returns: one sentinel alone, or paths only
DirChangeSets ==
  {ChangeSet({Star}, {}, {}, {}), ChangeSet({}, {}, {}, {Star})}
    \cup {cs \in {ChangeSet(a, m, d, {}) : a \in SUBSET ChangePaths,
                                           m \in SUBSET ChangePaths,
                                           d \in SUBSET ChangePaths} :
            Cardinality(cs.added) + Cardinality(cs.modified) + Cardinality(cs.deleted)
              <= MaxListed}

\* directoryHasChanges(dirPath, changes) as a call: it reads this.rootPath only
DirectoryHasChanges(dirPath, changes) ==
  /\ gres' = [op |-> "directoryHasChanges", dir |-> dirPath, cs |-> changes,
              flag |-> directoryHasChanges(dirPath, changes)]
  /\ UNCHANGED <<gcache, gdisk, git, tree, gclock, atUpdate>>
  /\ UNCHANGED <<storeVars, watchVars>>

UpdateData == {EmptyObj} \cup {[x \in {"aiDescriptions"} |-> [k \in Keys |-> d]] : d \in GDescs}

(***************************************************************************)
(* RulesWatcher (one watch session)                                        *)
(***************************************************************************)
MaxEvents == 4           \* file events delivered to the session
MaxTicks  == 6           \* clock steps of DebounceMs

updateDelay == 5000      \* this.updateDelay: minimum interval between regenerations (ms)
DebounceMs  == 1000      \* setTimeout(..., 1000)
NullHandle  == 0         \* this.updateTimeout = null; timer handles are 1, 2, ...

WProject == "p1"
OtherProject == "p2"        \* an id that is not watched
SrcFile  == <<"src", "a.ts">>        \* 'src/a.ts'
Readme   == <<"README.md">>
WPaths   == {SrcFile, Readme}
\* the events delivered: the source file is added, changed or unlinked, with
\* either content; the readme, which no callback reads, is rewritten
Writes   == {w \in WPaths \X {"add", "change", "unlink"} \X Contents :
               w[1] = Readme => (w[2] = "change" /\ w[3] = EmptyString)}
determineProjectType == "typescript"

\* the projectPath given to addProject: '.' (the working directory) or the
\* resolved absolute path '/w/p'
Cwd     == <<>>
AbsPath == <<"", "w", "p">>
ProjectPaths == {Cwd, AbsPath}
\* the path an event carries: chokidar reports it under the watched path, which is
\* path.join(projectPath, 'src'), path.join(projectPath, 'package.json'), ...
Reported(projectPath, rel) == projectPath \o rel

LastSegment(filePath) == filePath[Len(filePath)]

\* variant: every path is relevant
shouldProcessFileAll(filePath) == TRUE

shouldProcessFile(filePath) ==
  IF Len(filePath) >= 2 /\ filePath[1] = "src" THEN TRUE
  ELSE IF LastSegment(filePath) = "directory-structure.md" THEN TRUE
  ELSE CASE determineProjectType \in {"javascript", "typescript"} ->
              LastSegment(filePath) = "package.json"
         [] determineProjectType = "python" ->
              LastSegment(filePath) \in {"setup.py", "requirements.txt"}
         [] determineProjectType = "go" -> LastSegment(filePath) \in {"go.mod", "go.sum"}
         [] determineProjectType = "rust" -> LastSegment(filePath) = "Cargo.toml"
         [] determineProjectType = "java" ->
              LastSegment(filePath) \in {"pom.xml", "build.gradle"}
         [] OTHER -> FALSE

LiveIds == {t.id : t \in timers}

\* clearTimeout(handle): a fired or cleared handle is ignored
clearTimeout(ts, handle) == {t \in ts : t.id # handle}

\* handleFileChange(filePath, event), for the event with index n; filePath is
\* relative to the project, the filter sees it as the watcher reports it
handleFileChange(filePath, n) ==
  IF ~autoUpdate \/ ~shouldProcessFile(Reported(session.projectPath, filePath))
    THEN UNCHANGED <<updateTimeout, timers, burst>>
    ELSE /\ timers' = (IF updateTimeout # NullHandle
                         THEN clearTimeout(timers, updateTimeout) ELSE timers)
                      \cup {[id |-> n, due |-> now + DebounceMs, path |-> filePath]}
         /\ updateTimeout' = n
         /\ burst' = [first  |-> IF burst.last \in LiveIds THEN burst.first ELSE n,
                      len    |-> IF burst.last \in LiveIds THEN burst.len + 1 ELSE 1,
                      last   |-> n,
                      path   |-> filePath,
                      inRegen |-> regens # {},
                      expiry  |-> "pending"]

\* no regeneration has read a file, or the file it read has changed since
NoRead == [path |-> <<>>]

\* the watcher delivers 'add', 'change' or 'unlink' for a path of the project
FileEvent(filePath, kind, content) ==
  /\ session.watcher = "open"
  /\ events < MaxEvents
  /\ CASE kind = "add"    -> /\ filePath \notin DOMAIN wfiles
                             /\ wfiles' = Put(wfiles, filePath, content)
       [] kind = "change" -> /\ filePath \in DOMAIN wfiles        \* rewritten or touched
                             /\ wfiles' = Put(wfiles, filePath, content)
       [] kind = "unlink" -> /\ filePath \in DOMAIN wfiles
                             /\ content = EmptyString
                             /\ wfiles' = Remove(wfiles, filePath)
  /\ events' = events + 1
  /\ handleFileChange(filePath, events + 1)
  /\ lastRead' = IF lastRead # NoRead /\ lastRead.path = filePath /\ wfiles' # wfiles
                   THEN NoRead ELSE lastRead
  /\ UNCHANGED <<now, autoUpdate, lastUpdate, regens, output, wlog, cache>>
  /\ UNCHANGED <<storeDisk, everUpdated, sop, genVars, session>>

\* variant: the callback does not look at the time of the last regeneration
ExpiryNoInterval(t) ==
  IF t.path \notin DOMAIN wfiles THEN "unreadable"
  ELSE IF ~hasFileChanged(cache, storeDisk, WProject, t.path, wfiles[t.path])
    THEN "unchanged"
  ELSE "started"

\* what the callback of timer t does when it runs now
Expiry(t) ==
  IF now - lastUpdate < updateDelay THEN "tooSoon"
  ELSE IF t.path \notin DOMAIN wfiles THEN "unreadable"       \* readFileSync throws
  ELSE IF ~hasFileChanged(cache, storeDisk, WProject, t.path, wfiles[t.path])
    THEN "unchanged"
  ELSE "started"

\* variant: the callback has no try block
CallbackTryNone == {}

\* the statements of the timer callback that sit inside its try block, and the
\* one inside the try block of updateRules
CallbackTry == {"readFileSync", "hasFileChanged", "updateRules"}
UpdateRulesTry == {"generateDirectoryStructureContent"}
\* an exception thrown by statement site leaves the callback: the rejection is
\* unhandled and the process ends
Escapes(site) ==
  IF site = "generateDirectoryStructureContent"
    THEN site \notin UpdateRulesTry /\ "updateRules" \notin CallbackTry
    ELSE site \notin CallbackTry
Exited(s) == [s EXCEPT !.watcher = "exited"]

\* the description provider: it answers, its call fails, or no API key is set
Providers == {"ok", "error", "nokey"}
\* generateDirectoryStructureContent: new GeminiService() throws without a key,
\* generateContent() returns '' when the call fails, writeFileSync may throw
generateDirectoryStructureContent(provider, wrote) ==
  IF provider = "nokey" THEN [threw |-> TRUE, written |-> FALSE, descriptions |-> "none"]
  ELSE IF ~wrote THEN [threw |-> TRUE, written |-> FALSE, descriptions |-> "none"]
  ELSE [threw |-> FALSE, written |-> TRUE,
        descriptions |-> IF provider = "ok" THEN "some" ELSE "empty"]

\* the callback given to setTimeout, run when timer t expires
TimerFires(t) ==
  /\ t \in timers
  /\ t.due <= now
  /\ timers' = timers \ {t}
  /\ cache' = IF Expiry(t) \in {"unchanged", "started"}
                THEN EnsureLoaded(cache, storeDisk, WProject) ELSE cache
  /\ IF Expiry(t) = "started"
       THEN /\ lastUpdate' = now
            /\ regens' = regens \cup {[id |-> t.id, metrics |-> events]}
            /\ wlog' = Append(wlog, [ev |-> t.id, at |-> now, version |-> events])
            /\ lastRead' = [path |-> t.path, content |-> wfiles[t.path]]
       ELSE UNCHANGED <<lastUpdate, regens, wlog, lastRead>>
  /\ burst' = IF t.id = burst.last THEN [burst EXCEPT !.expiry = Expiry(t)] ELSE burst
  /\ session' = IF Expiry(t) = "unreadable" /\ Escapes("readFileSync")
                  THEN Exited(session) ELSE session
  /\ UNCHANGED <<now, autoUpdate, updateTimeout, wfiles, events, output>>
  /\ UNCHANGED <<storeDisk, everUpdated, sop, genVars>>

\* the awaited updateRules() of regeneration r settles: the artifact is written,
\* or the error is logged; the callback then sets updateTimeout = null
RegenCompletes(r, provider, wrote) ==
  LET gen == generateDirectoryStructureContent(provider, wrote)
  IN  /\ r \in regens
      /\ regens' = regens \ {r}
      /\ output' = IF gen.written
                     THEN [metrics |-> r.metrics, tree |-> events,
                           newest  |-> IF r.metrics > output.newest THEN r.metrics
                                       ELSE output.newest]
                     ELSE output
      /\ updateTimeout' = NullHandle
      /\ session' = IF gen.threw /\ Escapes("generateDirectoryStructureContent")
                      THEN Exited(session) ELSE session
      /\ UNCHANGED <<now, autoUpdate, lastUpdate, timers, wfiles, events, burst, wlog,
                     lastRead, cache>>
      /\ UNCHANGED <<storeDisk, everUpdated, sop, genVars>>

\* ProjectWatcherManager.setAutoUpdate(projectId, enabled) for a watched project
SetAutoUpdate(enabled) ==
  /\ session.registered
  /\ autoUpdate # enabled
  /\ autoUpdate' = enabled
  /\ UNCHANGED <<now, lastUpdate, updateTimeout, timers, regens, wfiles, events, burst,
                 output, wlog, lastRead, cache>>
  /\ UNCHANGED <<storeDisk, everUpdated, sop, genVars, session>>

\* time passes; an expired timer runs before the clock moves on
Tick ==
  /\ session.added
  /\ now < updateDelay + MaxTicks * DebounceMs
  /\ \A t \in timers : t.due > now
  /\ now' = now + DebounceMs
  /\ UNCHANGED <<autoUpdate, lastUpdate, updateTimeout, timers, regens, wfiles, events,
                 burst, output, wlog, lastRead, cache>>
  /\ UNCHANGED <<storeDisk, everUpdated, sop, genVars, session>>

\* no RulesWatcher has been created for the project
NoSession == [added |-> FALSE, registered |-> FALSE, watcher |-> "none",
              pathExists |-> FALSE, projectPath |-> Cwd]

\* variant: the manager refuses a path that does not exist
addProjectEarlier(s, projectPath, exists) ==
  IF s.registered THEN s
  ELSE IF ~exists
    THEN [added |-> TRUE, registered |-> FALSE, watcher |-> "threw", pathExists |-> FALSE,
          projectPath |-> projectPath]
  ELSE [added |-> TRUE, registered |-> TRUE, watcher |-> "open", pathExists |-> TRUE,
        projectPath |-> projectPath]

\* addProject: the RulesWatcher constructor returns before creating a watcher when
\* the path does not exist; the session is registered either way
addProject(s, projectPath, exists) ==
  IF s.registered THEN s
  ELSE [added |-> TRUE, registered |-> TRUE,
        watcher |-> IF exists THEN "open" ELSE "none", pathExists |-> exists,
        projectPath |-> projectPath]

\* RulesWatcher.stop(): closes the watcher when there is one
stop(w) == IF w = "open" THEN "closed" ELSE w

\* variant: the session is forgotten without stopping its watcher
removeProjectNoStop(s, projectId) ==
  IF projectId = WProject /\ s.registered THEN [s EXCEPT !.registered = FALSE] ELSE s

\* removeProject(projectId): stop and forget the session, or log when not found
removeProject(s, projectId) ==
  IF projectId = WProject /\ s.registered
    THEN [s EXCEPT !.watcher = stop(s.watcher), !.registered = FALSE]
    ELSE s

\* one RulesWatcher object is followed: the project is added once, and adding it
\* again while it is registered only logs
AddProject(projectPath, exists) ==
  /\ ~session.added \/ session.registered
  /\ session' = addProject(session, projectPath, exists)
  /\ UNCHANGED <<now, autoUpdate, lastUpdate, updateTimeout, timers, regens, wfiles,
                 events, burst, output, wlog, lastRead, cache>>
  /\ UNCHANGED <<storeDisk, everUpdated, sop, genVars>>

RemoveProject(projectId) ==
  /\ session.added
  /\ session' = removeProject(session, projectId)
  /\ UNCHANGED <<now, autoUpdate, lastUpdate, updateTimeout, timers, regens, wfiles,
                 events, burst, output, wlog, lastRead, cache>>
  /\ UNCHANGED <<storeDisk, everUpdated, sop, genVars>>

\* stopAll(): every watcher is stopped and the registry is emptied
StopAll ==
  /\ session.registered
  /\ session' = removeProject(session, WProject)
  /\ UNCHANGED <<now, autoUpdate, lastUpdate, updateTimeout, timers, regens, wfiles,
                 events, burst, output, wlog, lastRead, cache>>
  /\ UNCHANGED <<storeDisk, everUpdated, sop, genVars>>

NoBurst == [first |-> 0, len |-> 0, last |-> 0, path |-> SrcFile, inRegen |-> FALSE,
            expiry |-> "pending"]

InitWatchVars ==
  /\ now = updateDelay
  /\ autoUpdate = TRUE
  /\ lastUpdate = 0
  /\ updateTimeout = NullHandle
  /\ timers = {}
  /\ regens = {}
  /\ wfiles = [f \in WPaths |-> EmptyString]
  /\ events = 0
  /\ burst = NoBurst
  /\ output = [metrics |-> 0, tree |-> 0, newest |-> 0]
  /\ wlog = <<>>
  /\ lastRead = NoRead
  /\ session = NoSession

\* a fingerprint file left in .brain/cache by an earlier run
Fingerprinted == [p \in {WProject} |->
                    [ok |-> TRUE, table |-> [f \in {SrcFile} |-> FileEntry(EmptyObj, SrcFile, 1)]]]

(***************************************************************************)
(* Specifications                                                          *)
(***************************************************************************)
InitStore ==
  /\ InitStoreVars /\ InitGenVars /\ InitWatchVars
  /\ git.avail /\ git.base = 0 /\ gdisk = NoFile
NextStore ==
  \/ \E id \in Projects, p \in Paths, c \in Contents, w \in BOOLEAN :
       UpdateFile(id, p, c, w)
  \/ \E id \in Projects, p \in Paths, f \in FnNames, c \in Contents, d \in Descs,
        w \in BOOLEAN : UpdateFunction(id, p, f, c, d, w)
  \/ \E id \in Projects, p \in Paths, c \in Contents : HasFileChanged(id, p, c)
  \/ \E id \in Projects, u \in BOOLEAN : ClearProjectCache(id, u)
  \/ NewCacheManager
SpecStore == InitStore /\ [][NextStore]_vars

\* the store over a cache directory whose p1.json was not written by the store:
\* missing, unparsable, or holding the JSON literal null
ForeignFiles ==
  {EmptyObj, [p \in {"p1"} |-> [ok |-> FALSE]],
   [p \in {"p1"} |-> [ok |-> TRUE, table |-> JsonNull]]}
InitLoad ==
  /\ cache = EmptyObj
  /\ storeDisk \in ForeignFiles
  /\ everUpdated = {}
  /\ sop = OtherOp("new", 0)
  /\ InitGenVars /\ InitWatchVars
  /\ git.avail /\ git.base = 0 /\ gdisk = NoFile
SpecLoad == InitLoad /\ [][NextStore]_vars

InitGen == InitStoreVars /\ InitGenVars /\ InitWatchVars /\ storeDisk = EmptyObj
NextGen ==
  \/ LoadCache
  \/ DetectChanges
  \/ NeedsFullRegeneration
  \/ \E k \in Keys : GetCachedDescription(k)
  \/ \E k \in Keys, d \in GDescs : CacheDescription(k, d)
  \/ \E data \in UpdateData, w \in BOOLEAN : UpdateCache(data, w)
  \/ \E u \in BOOLEAN : ClearCache(u)
  \/ NewGenerator
  \/ \E e \in Edits : EditFile(e[1], e[2])
  \/ \E f \in Deletable : DeleteFile(f)
  \/ \E m \in Moves : RenameFile(m[1], m[2])
  \/ Commit
  \/ GTick
SpecGen == InitGen /\ [][NextGen]_vars

InitDir == InitStore
NextDir == \E dir \in Dirs, cs \in DirChangeSets : DirectoryHasChanges(dir, cs)
SpecDir == InitDir /\ [][NextDir]_vars

InitWatch ==
  /\ cache = EmptyObj
  /\ storeDisk \in {EmptyObj, Fingerprinted}
  /\ everUpdated = {}
  /\ sop = OtherOp("new", 0)
  /\ InitGenVars /\ git.avail /\ git.base = 0 /\ gdisk = NoFile
  /\ InitWatchVars
NextWatch ==
  \/ \E w \in Writes : FileEvent(w[1], w[2], w[3])
  \/ \E t \in timers : TimerFires(t)
  \/ \E r \in regens, p \in Providers, w \in BOOLEAN : RegenCompletes(r, p, w)
  \/ \E e \in BOOLEAN : SetAutoUpdate(e)
  \/ \E pp \in ProjectPaths, x \in BOOLEAN : AddProject(pp, x)
  \/ \E id \in {WProject, OtherProject} : RemoveProject(id)
  \/ StopAll
  \/ Tick
SpecWatch == InitWatch /\ [][NextWatch]_vars

(***************************************************************************)
(* Properties                                                              *)
(***************************************************************************)
AllPresent(cs) == cs.added \cup cs.modified \cup cs.deleted

\* C1: change detection is never optimistic: when detectChanges() runs after an
\* update() and some file differs from its content at that update(), the result
\* is not the all-unchanged sentinel, and it has '*' in added or names every
\* such file in added, modified or deleted.  Stated with version control available.
C1_NeverOptimistic ==
  (gres.op = "detectChanges" /\ gres.pre.updated /\ gres.pre.gitAvail
     /\ gres.pre.differing # {})
    => /\ gres.cs # AllUnchanged
       /\ \/ "*" \in gres.cs.added
          \/ gres.pre.differing \subseteq AllPresent(gres.cs)

\* regenerations started at or after the first event of the current burst
BurstRegens == SelectSeq(wlog, LAMBDA e : e.version >= burst.first)
\* the timer of the last relevant event has run, and it found the file of that
\* event readable and different from its fingerprint
LastTimerRan == burst.expiry \in {"tooSoon", "started"}
Quiescent == timers = {} /\ regens = {}

\* C2: debounce coalescing: three relevant events, each arriving while the timer
\* of the previous one is live (auto-update enabled), lead to exactly one
\* regeneration, and it runs on the content present at the last event.  Stated for
\* bursts whose last file is readable and not already fingerprinted.
C2_DebounceCoalescing ==
  (burst.len = 3 /\ LastTimerRan)
    => /\ Len(BurstRegens) = 1
       /\ BurstRegens[1].ev = burst.last
       /\ BurstRegens[1].version >= burst.last

\* C3: a watch session has at most one live debounce timer in every reachable state.
C3_AtMostOneLiveTimer == Cardinality(timers) <= 1

\* C4: at most one regeneration of the project is in flight at any time.
C4_AtMostOneRegeneration == Cardinality(regens) <= 1

\* C5: after a burst of relevant events followed by quiescence, some regeneration
\* started at or after the last event of the burst, and the artifact was not
\* overwritten by a regeneration that read an earlier state.  Stated for bursts
\* whose last file is readable and not already fingerprinted.
C5_LastEventReflected ==
  (Quiescent /\ LastTimerRan)
    => /\ \E i \in 1..Len(wlog) : wlog[i].version >= burst.last
       /\ output.metrics = output.newest

\* C6: a relevant event that arrives while a regeneration is in flight is followed,
\* without any further event, by a regeneration of its own: once the session is
\* quiescent, a regeneration has started after that event.  Stated for events whose
\* file is readable and not already fingerprinted.
C6_EventDuringRegenerationServed ==
  (Quiescent /\ burst.inRegen /\ LastTimerRan)
    => \E i \in 1..Len(wlog) : wlog[i].version >= burst.last

\* C7: right after updateFile(id, path, a), hasFileChanged(id, path, a) is false
\* and hasFileChanged(id, path, b) is true for every other content b; and a path
\* never passed to updateFile is reported changed for every content.
C7_FingerprintRoundTrip ==
  /\ sop.op = "updateFile" =>
       /\ ~hasFileChanged(cache, storeDisk, sop.id, sop.path, sop.content)
       /\ \A b \in Contents \ {sop.content} :
            hasFileChanged(cache, storeDisk, sop.id, sop.path, b)
  /\ \A id \in Projects, p \in Paths :
       <<id, p>> \notin everUpdated =>
         \A c \in Contents : hasFileChanged(cache, storeDisk, id, p, c)
\* C7 witness: updateFile has just run while another path of the same project holds
\* an entry that updateFile never wrote (it was created by updateFunction)
C7_Witness ==
  /\ sop.op = "updateFile"
  /\ \E p \in Paths : /\ <<sop.id, p>> \notin everUpdated
                      /\ sop.id \in DOMAIN cache
                      /\ p \in DOMAIN cache[sop.id]

\* C8: needsFullRegeneration() returns true whenever no usable snapshot exists (no
\* update() since construction or the last clear(), and no snapshot of the running
\* schema version on disk).
C8_NoSnapshotNeedsFull ==
  (gres.op = "needsFullRegeneration" /\ gres.pre.noUsable) => gres.flag

Queries == {"loadCache", "detectChanges", "needsFullRegeneration", "getCachedDescription"}
\* C10: a generator over a snapshot file of another schema version answers
\* loadCache, detectChanges, needsFullRegeneration and getCachedDescription as it
\* would with no snapshot file (null, {added:['*']}, true, null when it holds no
\* in-memory cache), and no field of that snapshot reaches the generator.
C10_VersionMismatchIsNoSnapshot ==
  /\ (gres.op \in Queries /\ gres.pre.mismatch) =>
       /\ gres.cs = gres.altCs /\ gres.flag = gres.altFlag /\ gres.desc = gres.altDesc
       /\ gres.pre.memNull =>
            /\ gres.op = "loadCache" => ~gres.flag
            /\ gres.op = "detectChanges" => gres.cs = FullRescan
            /\ gres.op = "needsFullRegeneration" => gres.flag
            /\ gres.op = "getCachedDescription" => gres.desc = NullResult
  /\ gres.desc # "stale"
  /\ ~gcache.isNull =>
       /\ gcache.version = CACHE_VERSION
       /\ \A k \in DOMAIN gcache.aiDescriptions : gcache.aiDescriptions[k] # "stale"
\* C10 witness: detectChanges() ran on a fresh generator whose snapshot file has the
\* old version and records the current HEAD as its reference
C10_Witness ==
  /\ gres.op = "detectChanges"
  /\ gres.pre.mismatch /\ gres.pre.memNull
  /\ git.avail /\ gdisk.kind = "json"
  /\ gdisk.data.lastGitRef = getCurrentGitRef(git, gclock)

\* the history diff between the stored and the current reference cannot be computed
NoDiffBase ==
  /\ gres.pre.lastRef # <<"none">>
  /\ gres.pre.lastRef # gres.pre.curRef
  /\ ~(git.avail /\ Resolvable(git, gres.pre.lastRef) /\ Resolvable(git, gres.pre.curRef))

\* C11: whenever the history diff between the snapshot's reference and the current
\* reference cannot be computed (unresolvable reference, no version control),
\* detectChanges() returns {added:['*']} with the other lists empty, never a change
\* set taken from another range of the history.
C11_DiffFailureFullRescan ==
  (gres.op = "detectChanges" /\ NoDiffBase) => gres.cs = FullRescan

\* the history diff between the stored and the current reference can be computed
DiffBase ==
  /\ gres.pre.lastRef # gres.pre.curRef
  /\ git.avail /\ Resolvable(git, gres.pre.lastRef) /\ Resolvable(git, gres.pre.curRef)

\* C12: every path touched by the history diff between the stored and the current
\* reference is classified in the ChangeSet of detectChanges(); for every rename
\* old -> new in the diff, deleted contains old and added contains new.
C12_EveryTouchedPathClassified ==
  (gres.op = "detectChanges" /\ DiffBase) =>
    LET old == git.commits[gres.pre.lastRef[2]]
        new == git.commits[gres.pre.curRef[2]]
    IN  /\ Differing(old, new) \subseteq AllPresent(gres.cs)
        /\ \A r \in Renames(old, new) :
             r[1] \in gres.cs.deleted /\ r[2] \in gres.cs.added

\* C13: without version control, a detectChanges() made after an update() never
\* returns the all-unchanged sentinel, also when both fall in the same clock tick.
C13_NoVersionControlAlwaysChanged ==
  (gres.op = "detectChanges" /\ gres.pre.updated /\ ~gres.pre.gitAvail)
    => gres.cs # AllUnchanged

\* C14: after clearProjectCache(id) returns, getCachedFileContent is null and
\* hasFileChanged is true for every path of that project, for the clearing instance
\* and for a fresh instance that loads from disk, whatever the outcome of deleting
\* the file.
C14_ClearLeavesNothing ==
  sop.op = "clear" =>
    \A p \in Paths :
      /\ getCachedFileContent(cache, storeDisk, sop.id, p) = NullValue
      /\ getCachedFileContent(EmptyObj, storeDisk, sop.id, p) = NullValue
      /\ \A c \in Contents :
           /\ hasFileChanged(cache, storeDisk, sop.id, p, c)
           /\ hasFileChanged(EmptyObj, storeDisk, sop.id, p, c)

\* C15: for every content c, the empty string included, after updateFile(id, path, c)
\* (called once or twice in a row) getCachedFileContent(id, path) equals c and
\* hasFileChanged(id, path, c) is false.
C15_UpdateFileReadBack ==
  sop.op = "updateFile" =>
    /\ getCachedFileContent(cache, storeDisk, sop.id, sop.path) = Value(sop.content)
    /\ ~hasFileChanged(cache, storeDisk, sop.id, sop.path, sop.content)

NoTableOnDisk(id) ==
  \/ id \notin DOMAIN storeDisk
  \/ ~storeDisk[id].ok
  \/ storeDisk[id].table = JsonNull

\* C17: for every state of a project's fingerprint file (missing, unparsable,
\* parsable JSON of any shape), loadProjectCache raises no error and the following
\* getCachedFileContent, getCachedFunctionDescription, hasFileChanged and
\* hasFunctionChanged calls return null / changed without throwing.
C17_LoadNeverThrows ==
  \A id \in Projects :
    NoTableOnDisk(id) =>
      LET c == loadProjectCache(cache, storeDisk, id)
      IN  /\ ~Throws(c, storeDisk, id)
          /\ \A q \in Paths :
               /\ getCachedFileContent(c, storeDisk, id, q) = NullValue
               /\ \A content \in Contents : hasFileChanged(c, storeDisk, id, q, content)
               /\ \A f \in FnNames :
                    /\ getCachedFunctionDescription(c, storeDisk, id, q, f) = NullValue
                    /\ \A content \in Contents :
                         hasFunctionChanged(c, storeDisk, id, q, f, content)

\* the session was removed from the registry (removeProject or stopAll)
Removed == session.added /\ ~session.registered

\* C18: after removeProject(id), also when a debounce timer of the session is
\* pending or its regeneration is in flight, no callback of the removed session
\* starts a regeneration or changes the session's state; removeProject of an
\* unknown id changes nothing.
C18_RemovedSessionIsInert ==
  [][/\ Removed => /\ wlog' = wlog
                   /\ lastUpdate' = lastUpdate
                   /\ updateTimeout' = updateTimeout
     /\ RemoveProject(OtherProject) => UNCHANGED vars]_vars

\* C19: while autoUpdate is false no regeneration starts, whatever the file events
\* and timer firings (a timer scheduled before the toggle included); the toggle
\* leaves the observation open.
C19_NoRegenerationWhileDisabled ==
  [][/\ wlog' # wlog => autoUpdate
     /\ autoUpdate' # autoUpdate => session'.watcher = session.watcher]_vars

\* the project was added with a path that did not exist
MissingPath == session.added /\ ~session.pathExists

\* C20: addProject with a path that does not exist does not throw and registers a
\* session; that session never starts a regeneration, and a later removeProject or
\* stopAll removes it without error.
C20_MissingPathSession ==
  /\ [](MissingPath => /\ session.watcher = "none"
                       /\ timers = {} /\ regens = {} /\ wlog = <<>>)
  /\ [][(~session.added /\ session'.added /\ ~session'.pathExists)
          => session'.registered]_vars
  /\ [][(MissingPath /\ (RemoveProject(WProject) \/ StopAll))
          => (~session'.registered /\ session'.watcher = "none")]_vars
\* C20 witness: a session added with a missing path was removed again, after time
\* had passed and auto-update had been toggled
C20_Witness ==
  /\ MissingPath /\ ~session.registered
  /\ now > updateDelay
  /\ ~autoUpdate

\* the fingerprint file of project id holds exactly the in-memory table
Persisted(id) ==
  /\ id \in DOMAIN cache
  /\ id \in DOMAIN storeDisk
  /\ storeDisk[id].ok
  /\ storeDisk[id].table = cache[id]

\* C25: write-through: when updateFile or updateFunction returns, the persisted
\* table of that project equals the in-memory table, whatever the disk write did
C25_WriteThrough ==
  [][sop'.op \in {"updateFile", "updateFunction"} =>
       /\ \A id \in Projects, q \in Paths, c \in Contents, w \in BOOLEAN :
            UpdateFile(id, q, c, w) => Persisted(id)'
       /\ \A id \in Projects, q \in Paths, f \in FnNames, c \in Contents,
             d \in Descs, w \in BOOLEAN :
            UpdateFunction(id, q, f, c, d, w) => Persisted(id)']_vars

\* what the store answers about path q of project id
FileAnswers(c, d, id, q) ==
  [changed |-> [x \in Contents |-> hasFileChanged(c, d, id, q, x)],
   content |-> getCachedFileContent(c, d, id, q)]
FunctionAnswers(c, d, id, q) ==
  [changed |-> [f \in FnNames |->
                  [x \in Contents |-> hasFunctionChanged(c, d, id, q, f, x)]],
   description |-> [f \in FnNames |-> getCachedFunctionDescription(c, d, id, q, f)]]

\* C26: updateFile(id, path, content) leaves every function answer (of that path,
\* of other paths and of other projects) and every file answer of other paths and
\* projects as it was; updateFunction leaves the hash and content of every
\* existing file entry as they were (sop' names the call a step made)
C26_UpdateFrame ==
  /\ [][sop'.op = "updateFile" =>
          \A id2 \in Projects, q \in Paths :
            /\ FunctionAnswers(cache', storeDisk', id2, q)
                 = FunctionAnswers(cache, storeDisk, id2, q)
            /\ <<id2, q>> # <<sop'.id, sop'.path>> =>
                 FileAnswers(cache', storeDisk', id2, q)
                   = FileAnswers(cache, storeDisk, id2, q)]_vars
  /\ [][sop'.op = "updateFunction" =>
          \A id2 \in Projects, q \in Paths :
            q \in DOMAIN EnsureLoaded(cache, storeDisk, id2)[id2] =>
              FileAnswers(cache', storeDisk', id2, q)
                = FileAnswers(cache, storeDisk, id2, q)]_vars
\* C26 witness: updateFile has just rewritten a path that holds a function
\* sub-entry, while another path of the project has an entry too
C26_Witness ==
  /\ sop.op = "updateFile"
  /\ sop.id \in DOMAIN cache
  /\ sop.path \in DOMAIN cache[sop.id]
  /\ cache[sop.id][sop.path].functions # EmptyObj
  /\ cache[sop.id][sop.path].hash = calculateHash(sop.content)
  /\ \E q \in DOMAIN cache[sop.id] : q # sop.path

\* path change lies inside the directory rel, or is it; both relative to the root
Inside(change, rel) ==
  rel = <<>> \/ change = rel \/ startsWith(change, rel \o <<"/">>)
\* path change is an ancestor of the directory rel
Ancestor(change, rel) == startsWith(rel, change \o <<"/">>)

\* C27: directoryHasChanges has no false negatives: true when added holds the
\* sentinel; true, for a change set without sentinels, when some added, modified
\* or deleted path lies inside the directory or is an ancestor of it; false when
\* unchanged holds the sentinel and when the change set has no paths at all
C27_NoFalseNegatives ==
  gres.op = "directoryHasChanges" =>
    LET rel == relative(RootPath, gres.dir)
        all == gres.cs.added \cup gres.cs.modified \cup gres.cs.deleted
    IN  /\ Star \in gres.cs.added => gres.flag
        /\ (/\ Star \notin gres.cs.added \cup gres.cs.unchanged
            /\ \E ch \in all : Inside(ch, rel) \/ Ancestor(ch, rel)) => gres.flag
        /\ Star \in gres.cs.unchanged => ~gres.flag
        /\ (all = {} /\ gres.cs.unchanged = {}) => ~gres.flag
\* C27 witness: a change set without sentinels whose only relevant path is a
\* proper ancestor of the directory asked about
C27_Witness ==
  /\ gres.op = "directoryHasChanges"
  /\ gres.flag
  /\ Star \notin gres.cs.added \cup gres.cs.unchanged
  /\ LET rel == relative(RootPath, gres.dir)
         all == gres.cs.added \cup gres.cs.modified \cup gres.cs.deleted
     IN  /\ \E ch \in all : Ancestor(ch, rel)
         /\ \A ch \in all : ~Inside(ch, rel)

\* C28: two regeneration starts of the session are at least updateDelay apart; a
\* debounce expiry inside the interval since the last start begins no
\* regeneration; lastUpdate never decreases
C28_MinimumInterval ==
  /\ [](\A i \in 1..Len(wlog), j \in 1..Len(wlog) :
          i < j => wlog[j].at - wlog[i].at >= updateDelay)
  /\ [][now - lastUpdate < updateDelay =>
          (regens' \subseteq regens /\ wlog' = wlog /\ lastUpdate' = lastUpdate)]_vars
  /\ [][lastUpdate' >= lastUpdate]_vars
\* C28 witness: a timer expired inside the interval and started nothing, and a
\* second regeneration started exactly updateDelay after the first
C28_Witness ==
  /\ Len(wlog) = 2
  /\ wlog[2].at - wlog[1].at = updateDelay
  /\ lastUpdate = wlog[2].at
  /\ wlog[2].ev > wlog[1].ev + 1

\* C24: with auto-update enabled and the minimum interval satisfied, the debounce
\* expiry that follows a relevant add, change or unlink event starts a
\* regeneration (unless the fingerprint check reports the file unchanged)
C24_EveryEventKindRegenerates ==
  [][\A t \in timers :
       (/\ TimerFires(t)
        /\ autoUpdate
        /\ now - lastUpdate >= updateDelay
        /\ Expiry(t) # "unchanged") => Len(wlog') = Len(wlog) + 1]_vars

\* C22: every event the watcher delivers for a file of the project's source tree
\* is relevant to the session's filter and schedules a debounce timer (auto-update
\* being enabled)
C22_SourceTreeEventsRelevant ==
  [][\A k \in {"add", "change", "unlink"}, c \in Contents :
       (FileEvent(SrcFile, k, c) /\ autoUpdate) =>
         /\ shouldProcessFile(Reported(session.projectPath, SrcFile))
         /\ updateTimeout' = events'
         /\ \E t \in timers' : t.id = events' /\ t.due = now + DebounceMs]_vars

\* C30: once a regeneration that read file f with content c has completed, the
\* debounce expiry of a later event on f, f's content being still c, starts no
\* further regeneration
C30_NoRedundantRegeneration ==
  [][\A t \in timers :
       (/\ TimerFires(t)
        /\ regens = {}
        /\ lastRead # NoRead
        /\ lastRead.path = t.path) => wlog' = wlog]_vars

\* the session holds an open file-system observation handle
HandleOpen == session.watcher = "open"

C23_ProviderFailureStillGenerates ==
  [][\A r \in regens, p \in {"error", "nokey"} :
       RegenCompletes(r, p, TRUE) =>
         /\ ~generateDirectoryStructureContent(p, TRUE).threw
         /\ generateDirectoryStructureContent(p, TRUE).descriptions = "empty"
         /\ output'.metrics = r.metrics]_vars

====
